---- MODULE Spec2Model ----
(***************************************************************************)
(* mns-supervisor: the multiplexed agent link (network/fernbedienung) and  *)
(* the discovery loop (network/mod.rs).                                    *)
(*                                                                         *)
(* Spec    : one agent-link Device: its handle, its supervisor task (the   *)
(*           select loop of Device::new), the per-operation drivers, the   *)
(*           callers of upload/run/stream and the peer.                    *)
(* NetSpec : the discovery loop over a small subnet.                       *)
(***************************************************************************)
EXTENDS Integers, Sequences, FiniteSets, TLC

\* ------------------------------------------------------------------ bounds
\* operations issued on the handle
MaxOps == 2
\* response frames the peer emits
MaxFrames == 3
\* stdin chunks a caller supplies to one run
MaxStdin == 2
\* operations issued in a run of the model where the callers also fire and
\* drop signals, feed stdin and drop futures, and the peer sends any frame
MaxRichOps == 1

\* hosts of the probed subnet
MaxAddrs == 2
\* robots handed to the arena
MaxAdmits == 2
\* probes of one address that are counted
MaxCycles == 3
\* robots of the fleet
MaxRobots == 2
\* websocket clients of the web UI
MaxClients == 2
\* commands written to the shell of one robot
MaxCmds == 1

Ops == 1..MaxOps
\* Uuid::new_v4(): the correlators that can be minted
Uuids == 1..MaxOps
\* Option<Uuid> of a response frame: 0 is None
NoUuid == 0
NoOp == 0

\* ------------------------------------------------------------------- state
VARIABLES
    \* how the callers and the peer of this run behave (fixed by Init):
    \* "rich": up to MaxRichOps operations, callers and peer unrestricted;
    \* "plain": up to MaxOps operations that the callers only await, and a
    \* peer that sends the frames of PlainFrames
    env,
    \* Device.request_tx is alive / dropped
    handle,
    \* local_request_rx: Request values sent by upload/run/stream
    local_request,
    \* the supervisor task: "running" in its loop, "stopped" after break
    sup,
    \* status_txs: Uuid -> the operation whose driver holds the receiver
    status_txs,
    \* tasks: the drivers in the FuturesUnordered
    tasks,
    \* per operation, its driver: st, uuid, taken (signal stream consumed)
    drv,
    \* per operation, the buffer of its status channel
    sink,
    \* every Uuid minted so far
    minted,
    \* remote_requests_tx: the requests enqueued for the writer, in order
    remote_requests,
    \* the TCP connection as the supervisor finds it: "up", or "closed" when
    \* the peer has closed it (remote_responses.next() is None, writes fail)
    conn,
    \* response frames read from the connection so far
    nemit,
    \* addresses sent on return_addr_tx
    returned,
    \* caller side, per operation
    kind, opts, result, sig, stdin, nstdin,
    \* what reached the caller's sinks (stdout_tx, stderr_tx, frames_tx)
    out, err, frames,
    \* per driver, the emission number of the last response it took
    last,
    \* per run, the StandardOutput frames the peer wrote under its correlator
    \* while its driver was running with a stdout sink (history, read by no
    \* action)
    nstdout,
    \* the arm of the response branch the last frame read went through:
    \* "routed" (status_txs has its uuid), "unknown" (it has not), "absent"
    \* (no uuid, logged), "undecodable" (Err, logged), "none" before any frame
    seen,
    \* ---- the discovery loop (network::new)
    \* network_addr_rx: the address pool
    addresses,
    \* probe_queue: the probe futures in flight, each [addr, stage]
    probe_queue,
    \* where the loop is: "select", or "associate" while it awaits associate
    net,
    \* the device associate was called with, [addr, link], while it runs
    assoc,
    \* the live robots, each [addr, link], holding their device
    robots,
    \* arena_request_tx: the requests sent to the arena, in order
    arena_requests,
    \* per address, the links a dial would reach right now
    host,
    \* per address, the probe futures pushed and the probe futures that
    \* ended in Error::Timeout, each counted up to MaxCycles (history, read
    \* by no action)
    pushed, timedout,
    \* Robots<pipuck::PiPuck>, Robots<drone::Drone>: the uuids of the robots
    pipucks, drones,
    \* the writer of each RwLock: a web UI client, or NoClient
    pipucks_lock, drones_lock,
    \* per Pi-Puck, its thrussh channel: "up" or "down"
    ssh,
    \* per Pi-Puck, the commands written to its shell
    sent,
    \* the state of the Experiment
    experiment,
    \* per client, where webui::run stands: at the read of the socket
    \* ("idle"), inside ssh.exec ("exec") or inside the futures it collected
    \* over a fleet ("tasks"), or returned ("closed")
    ui,
    \* the last step of a handler: the client and message it took, the robot
    \* it called execute on, the line it logged and the reply it sent
    \* (history, read by no action)
    handled, called, log, reply,
    \* main: "running", "interrupted" once ctrl_c is ready, "exited"
    main

muxvars == <<handle, local_request, sup, status_txs, tasks, drv, sink, minted,
             remote_requests, conn, nemit,
             returned, kind, opts, result, sig, stdin, nstdin, out, err,
             frames, last, nstdout, seen>>

netvars == <<addresses, probe_queue, net, assoc, robots, arena_requests, host,
             pushed, timedout>>

uivars == <<pipucks, drones, pipucks_lock, drones_lock, ssh, sent, experiment,
            ui, handled, called, log, reply, main>>

\* what the actions of the agent link leave alone
rest == <<env, netvars, uivars>>

vars == <<env, muxvars, netvars, uivars>>

\* ---------------------------------------------------------------- protocol
\* protocol::ResponseKind as used by the drivers
ResponseKinds == {"Ok", "Error", "Terminated", "StandardOutput",
                  "StandardError", "Frame"}
\* a frame that does not deserialize
Undecodable == "Undecodable"

\* the arguments of Device::run that are Option<_>
RunOptions ==
    { [term |-> FALSE, stdin |-> FALSE, stdout |-> TRUE,  stderr |-> FALSE],
      [term |-> TRUE,  stdin |-> TRUE,  stdout |-> TRUE,  stderr |-> TRUE] }
NoOptions == [term |-> FALSE, stdin |-> FALSE, stdout |-> FALSE, stderr |-> FALSE]
StreamOptions == [term |-> TRUE, stdin |-> FALSE, stdout |-> FALSE, stderr |-> FALSE]

NoDriver == [st |-> "none", uuid |-> NoUuid, taken |-> FALSE]

\* HashMap<Uuid, UnboundedSender<ResponseKind>>: Default::default()
EmptyTable == [u \in {} |-> NoOp]

\* HashMap::insert: a value already under the key is replaced
Insert(t, u, i) == [x \in DOMAIN t \cup {u} |-> IF x = u THEN i ELSE t[x]]

\* HashMap::remove
Remove(t, u) == [x \in DOMAIN t \ {u} |-> t[x]]

\* protocol::Request(uuid, kind)
Req(u, k) == [c |-> u, k |-> k, d |-> 0]
\* protocol::Request(uuid, Process(StandardInput(data)))
StdinReq(u, d) == [c |-> u, k |-> "StandardInput", d |-> d]
\* the bytes of a response frame, told apart by the frame they came in
Payload(f) == [c |-> f.c, k |-> f.k, n |-> f.n]

\* ------------------------------------------------------------------- Init
MuxInit ==
    /\ env \in {"rich", "plain"}
    /\ handle = "alive"
    /\ local_request = <<>>
    /\ sup = "running"
    /\ status_txs = EmptyTable
    /\ tasks = {}
    /\ drv = [i \in Ops |-> NoDriver]
    /\ sink = [i \in Ops |-> <<>>]
    /\ minted = {}
    /\ remote_requests = <<>>
    /\ conn = "up"
    /\ nemit = 0
    /\ returned = 0
    /\ kind = [i \in Ops |-> "none"]
    /\ opts = [i \in Ops |-> NoOptions]
    /\ result = [i \in Ops |-> "unissued"]
    /\ sig = [i \in Ops |-> "absent"]
    /\ stdin = [i \in Ops |-> <<>>]
    /\ nstdin = [i \in Ops |-> 0]
    /\ out = [i \in Ops |-> <<>>]
    /\ err = [i \in Ops |-> <<>>]
    /\ frames = [i \in Ops |-> <<>>]
    /\ last = [i \in Ops |-> 0]
    /\ nstdout = [i \in Ops |-> 0]
    /\ seen = "none"

\* ------------------------------------------------------------ the callers
EnvOps == IF env = "rich" THEN MaxRichOps ELSE MaxOps

Issued == {i \in Ops : kind[i] # "none"}
NextOp == Cardinality(Issued) + 1

\* self.request_tx.send(request).map_err(|_| Error::RequestError)?  then
\* result_rx.await
SendRequest(i, k, o, s) ==
    /\ handle = "alive"
    /\ i = NextOp
    /\ i \in Ops
    /\ i <= EnvOps
    /\ kind' = [kind EXCEPT ![i] = k]
    /\ opts' = [opts EXCEPT ![i] = o]
    /\ sig' = [sig EXCEPT ![i] = s]
    /\ IF sup = "running"
       THEN /\ local_request' = Append(local_request, i)
            /\ result' = [result EXCEPT ![i] = "pending"]
       ELSE /\ result' = [result EXCEPT ![i] = "RequestError"]
            /\ UNCHANGED local_request
    /\ UNCHANGED <<rest, handle, sup, status_txs, tasks, drv, sink, minted,
                   remote_requests, conn, nemit,
                   returned, stdin, nstdin, out, err, frames, last, nstdout, seen>>

upload(i) == SendRequest(i, "Upload", NoOptions, "absent")

run(i, o) == SendRequest(i, "Run", o, IF o.term THEN "armed" ELSE "absent")

stream(i) == SendRequest(i, "Stream", StreamOptions, "armed")

\* the caller fires the one-shot terminate / stop signal
FireSignal(i) ==
    /\ env = "rich"
    /\ sig[i] = "armed"
    /\ sig' = [sig EXCEPT ![i] = "fired"]
    /\ UNCHANGED <<rest, handle, local_request, sup, status_txs, tasks, drv, sink,
                   minted, remote_requests, conn,
                   nemit, returned, kind, opts, result, stdin, nstdin, out,
                   err, frames, last, nstdout, seen>>

\* the caller drops the signal's sender without firing it
DropSignal(i) ==
    /\ env = "rich"
    /\ sig[i] = "armed"
    /\ sig' = [sig EXCEPT ![i] = "dropped"]
    /\ UNCHANGED <<rest, handle, local_request, sup, status_txs, tasks, drv, sink,
                   minted, remote_requests, conn,
                   nemit, returned, kind, opts, result, stdin, nstdin, out,
                   err, frames, last, nstdout, seen>>

\* the caller sends one chunk on the run's stdin channel
PushStdin(i) ==
    /\ env = "rich"
    /\ kind[i] = "Run"
    /\ opts[i].stdin
    /\ nstdin[i] < MaxStdin
    /\ nstdin' = [nstdin EXCEPT ![i] = @ + 1]
    /\ stdin' = [stdin EXCEPT ![i] = Append(@, nstdin[i] + 1)]
    /\ UNCHANGED <<rest, handle, local_request, sup, status_txs, tasks, drv, sink,
                   minted, remote_requests, conn,
                   nemit, returned, kind, opts, result, sig, out, err, frames,
                   last, nstdout, seen>>

\* the caller drops the future of upload/run/stream before it resolved
DropFuture(i) ==
    /\ env = "rich"
    /\ result[i] = "pending"
    /\ result' = [result EXCEPT ![i] = "dropped"]
    /\ UNCHANGED <<rest, handle, local_request, sup, status_txs, tasks, drv, sink,
                   minted, remote_requests, conn,
                   nemit, returned, kind, opts, sig, stdin, nstdin, out, err,
                   frames, last, nstdout, seen>>

\* the owner drops the Device; every future of it borrows &self, so none is
\* still pending
DropDevice ==
    /\ handle = "alive"
    /\ \A i \in Ops : result[i] # "pending"
    /\ handle' = "dropped"
    /\ UNCHANGED <<rest, local_request, sup, status_txs, tasks, drv, sink, minted,
                   remote_requests, conn, nemit,
                   returned, kind, opts, result, sig, stdin, nstdin, out, err,
                   frames, last, nstdout, seen>>

\* --------------------------------------------------------------- the peer
\* the peer has closed the TCP stream and the supervisor has read all it
\* wrote: remote_responses.next() is None from now on, and writes fail
PeerClose ==
    /\ conn = "up"
    /\ conn' = "closed"
    /\ UNCHANGED <<rest, handle, local_request, sup, status_txs, tasks, drv, sink,
                   minted, remote_requests, nemit,
                   returned, kind, opts, result, sig, stdin, nstdin, out, err,
                   frames, last, nstdout, seen>>

\* ------------------------------------------------- the supervisor's loop
\* The fourth branch of the select, forward_remote_requests, writes the
\* queued requests to the socket and has an empty body: it changes nothing
\* the loop or a driver reads, and the peer here answers whatever it likes,
\* so remote_requests keeps every request enqueued, in order.

\* a generator that repeats itself: the first correlator, minted or not
NewUuid_reuse == CHOOSE u \in Uuids : TRUE

\* Uuid::new_v4(): a correlator no request of this process carries yet
NewUuid == CHOOSE u \in Uuids \ minted : TRUE

\* routing that ignores the correlator: the frame goes to the first driver
\* that is running
Deliver_first(q, u, f) ==
    IF \E i \in Ops : drv[i].st = "running"
    THEN [q EXCEPT ![CHOOSE i \in Ops : drv[i].st = "running"] = Append(@, f)]
    ELSE q

\* a channel that hands out the newest frame first
Deliver_lifo(q, u, f) ==
    IF u \in DOMAIN status_txs /\ drv[status_txs[u]].st = "running"
    THEN [q EXCEPT ![status_txs[u]] = <<f>> \o @]
    ELSE q

\* routing with a catch-all: a frame whose correlator is not in the table
\* goes to the first driver that is running
Deliver_default(q, u, f) ==
    IF u \in DOMAIN status_txs /\ drv[status_txs[u]].st = "running"
    THEN [q EXCEPT ![status_txs[u]] = Append(@, f)]
    ELSE IF \E i \in Ops : drv[i].st = "running"
         THEN [q EXCEPT ![CHOOSE i \in Ops : drv[i].st = "running"] = Append(@, f)]
         ELSE q

\* status_tx.send(response): the frame is queued for the driver that holds
\* the receiver, unless that driver has finished (the receiver is gone)
Deliver(q, u, f) ==
    IF u \in DOMAIN status_txs /\ drv[status_txs[u]].st = "running"
    THEN [q EXCEPT ![status_txs[u]] = Append(@, f)]
    ELSE q

\* the response frames a peer can write; b is the bool of Terminated.  A
\* frame that does not deserialize or has no correlator is only logged,
\* whatever else it holds, so one frame stands for each of the two
PeerFrames ==
    { [c |-> c, k |-> k, b |-> b] :
        c \in Uuids, k \in ResponseKinds \ {"Terminated"}, b \in {FALSE} }
    \cup { [c |-> c, k |-> "Terminated", b |-> b] : c \in Uuids, b \in BOOLEAN }
    \cup { [c |-> NoUuid, k |-> "Ok", b |-> FALSE],
           [c |-> NoUuid, k |-> Undecodable, b |-> FALSE] }

\* the frames of a peer that answers uploads, runs and streams in order
PlainFrames ==
    { f \in PeerFrames :
        /\ f.c # NoUuid
        /\ f.k \in {"Ok", "StandardOutput", "Frame", "Terminated"}
        /\ f.k = "Terminated" => f.b }

EnvFrames == IF env = "rich" THEN PeerFrames ELSE PlainFrames

\* the arm of `match response` a frame goes through
Arm(f) ==
    CASE f.k = Undecodable -> "undecodable"
      [] f.k # Undecodable /\ f.c = NoUuid -> "absent"
      [] f.k # Undecodable /\ f.c # NoUuid /\ f.c \in DOMAIN status_txs -> "routed"
      [] OTHER -> "unknown"

\* Some(response) = remote_responses.next(), with p the next frame the peer
\* wrote (n is its place on the connection): look the correlator up and
\* forward the payload; without correlator, unknown or undecodable: log only
SupResponse(p) ==
    /\ p \in EnvFrames
    /\ sup = "running"
    /\ conn = "up"
    /\ nemit < MaxFrames
    /\ nemit' = nemit + 1
    /\ LET f == [c |-> p.c, k |-> p.k, b |-> p.b, n |-> nemit + 1] IN
        /\ sink' = IF f.k # Undecodable /\ f.c # NoUuid
                   THEN Deliver(sink, f.c, f)
                   ELSE sink
        /\ seen' = Arm(f)
        /\ nstdout' = [i \in Ops |->
                          IF /\ f.k = "StandardOutput" /\ f.c = drv[i].uuid
                             /\ drv[i].st = "running" /\ opts[i].stdout
                          THEN nstdout[i] + 1
                          ELSE nstdout[i]]
    /\ UNCHANGED <<rest, handle, local_request, sup, status_txs, tasks, drv, minted,
                   remote_requests, conn, returned, kind,
                   opts, result, sig, stdin, nstdin, out, err, frames, last>>

\* the first request an operation pushes
FirstRequest(k) ==
    CASE k = "Upload" -> "Upload"
      [] k = "Run" -> "Run"
      [] k = "Stream" -> "Stream"

\* request = local_request_rx.recv(), Some(request): mint the correlator,
\* subscribe, send the request, push the driver
SupRequest ==
    /\ sup = "running"
    /\ local_request # <<>>
    /\ LET i == Head(local_request)
           uuid == NewUuid IN
        /\ local_request' = Tail(local_request)
        /\ minted' = minted \cup {uuid}
        /\ status_txs' = Insert(status_txs, uuid, i)
        /\ remote_requests' = Append(remote_requests, Req(uuid, FirstRequest(kind[i])))
        /\ drv' = [drv EXCEPT ![i] = [st |-> "running", uuid |-> uuid, taken |-> FALSE]]
        /\ tasks' = tasks \cup {i}
    /\ UNCHANGED <<rest, handle, sup, sink, conn, nemit,
                   returned, kind, opts, result, sig, stdin, nstdin, out, err,
                   frames, last, nstdout, seen>>

\* what a caller whose result sender is dropped unsent gets: ResponseError
Orphan(r) == IF r = "pending" THEN "ResponseError" ELSE r

\* a loop that breaks without return_addr_tx.send(addr)
SupDropped_unsent ==
    /\ sup = "running"
    /\ local_request = <<>>
    /\ handle = "dropped"
    /\ sup' = "stopped"
    /\ status_txs' = EmptyTable
    /\ tasks' = {}
    /\ drv' = [i \in Ops |-> IF drv[i].st = "running"
                             THEN [drv[i] EXCEPT !.st = "cancelled"]
                             ELSE drv[i]]
    /\ sink' = [i \in Ops |-> <<>>]
    /\ result' = [i \in Ops |-> Orphan(result[i])]
    /\ conn' = "closed"
    /\ UNCHANGED <<rest, handle, local_request, minted, remote_requests, nemit,
                   returned, kind, opts, sig, stdin, nstdin, out, err, frames,
                   last, nstdout, seen>>

\* request = local_request_rx.recv(), None: every sender is gone and the
\* queue is empty; give the address back and leave the loop, which drops
\* the table, the drivers and the connection
SupDropped ==
    /\ sup = "running"
    /\ local_request = <<>>
    /\ handle = "dropped"
    /\ returned' = returned + 1
    /\ sup' = "stopped"
    /\ status_txs' = EmptyTable
    /\ tasks' = {}
    /\ drv' = [i \in Ops |-> IF drv[i].st = "running"
                             THEN [drv[i] EXCEPT !.st = "cancelled"]
                             ELSE drv[i]]
    /\ sink' = [i \in Ops |-> <<>>]
    /\ result' = [i \in Ops |-> Orphan(result[i])]
    /\ conn' = "closed"
    /\ UNCHANGED <<rest, handle, local_request, minted, remote_requests, nemit, kind, opts, sig, stdin, nstdin, out, err, frames, last, nstdout, seen>>

\* a tasks.next() branch that forgets status_txs.remove(&uuid)
SupTaskDone_keep(i) ==
    /\ sup = "running"
    /\ i \in tasks
    /\ drv[i].st = "done"
    /\ tasks' = tasks \ {i}
    /\ UNCHANGED <<rest, handle, local_request, sup, status_txs, drv, sink, minted,
                   remote_requests, conn, nemit,
                   returned, kind, opts, result, sig, stdin, nstdin, out, err,
                   frames, last, nstdout, seen>>

\* Some(uuid) = tasks.next(): a driver returned its uuid
SupTaskDone(i) ==
    /\ sup = "running"
    /\ i \in tasks
    /\ drv[i].st = "done"
    /\ tasks' = tasks \ {i}
    /\ status_txs' = Remove(status_txs, drv[i].uuid)
    /\ UNCHANGED <<rest, handle, local_request, sup, drv, sink, minted,
                   remote_requests, conn, nemit,
                   returned, kind, opts, result, sig, stdin, nstdin, out, err,
                   frames, last, nstdout, seen>>


\* ------------------------------------------------------------ the drivers
\* The drivers are futures in `tasks`: they run only while the supervisor
\* polls them.  In each of them `else => break` needs recv() on the status
\* channel to be None, but the sender stays in status_txs until the driver
\* has returned, so the drivers leave their loop only where shown.

\* a driver that is still polled after it returned
Polled_done(i) == sup = "running" /\ drv[i].st \in {"running", "done"}

\* tasks.next() polls the drivers that have not returned
Polled(i) == sup = "running" /\ i \in tasks /\ drv[i].st = "running"

\* a driver that breaks without sending on its result channel
SendResult_lost(r, v) == r

\* oneshot::Sender::send(value): the value reaches a caller still waiting
SendResult(r, v) == IF r = "pending" THEN v ELSE r

\* a driver that answers every signal with Stream(Stop)
StopRequest_stop(k) == "Stop"

\* the terminating request of an operation
StopRequest(k) == IF k = "Run" THEN "Terminate" ELSE "Stop"

\* Some(_) = terminate_rx.next() / stop_rx.next(): the one-shot receiver as
\* a stream yields its single Result, Ok(()) when fired and Err when the
\* sender was dropped, and both match Some(_)
Resolved(s) == s \in {"fired", "dropped"}

DrvSignal(i) ==
    /\ Polled(i)
    /\ kind[i] \in {"Run", "Stream"}
    /\ Resolved(sig[i])
    /\ ~drv[i].taken
    /\ drv' = [drv EXCEPT ![i].taken = TRUE]
    /\ remote_requests' = Append(remote_requests, Req(drv[i].uuid, StopRequest(kind[i])))
    /\ UNCHANGED <<rest, handle, local_request, sup, status_txs, tasks, sink, minted,
                   conn, nemit, returned, kind,
                   opts, result, sig, stdin, nstdin, out, err, frames, last, nstdout, seen>>

\* a driver that forwards the newest chunk of the stdin channel first
DrvStdin_newest(i) ==
    /\ Polled(i)
    /\ kind[i] = "Run"
    /\ stdin[i] # <<>>
    /\ stdin' = [stdin EXCEPT ![i] = SubSeq(@, 1, Len(@) - 1)]
    /\ remote_requests' = Append(remote_requests,
                                 StdinReq(drv[i].uuid, stdin[i][Len(stdin[i])]))
    /\ UNCHANGED <<rest, handle, local_request, sup, status_txs, tasks, drv, sink,
                   minted, conn, nemit, returned,
                   kind, opts, result, sig, nstdin, out, err, frames, last, nstdout, seen>>

\* Some(stdin) = stdin_rx.next()
DrvStdin(i) ==
    /\ Polled(i)
    /\ kind[i] = "Run"
    /\ stdin[i] # <<>>
    /\ stdin' = [stdin EXCEPT ![i] = Tail(@)]
    /\ remote_requests' = Append(remote_requests, StdinReq(drv[i].uuid, Head(stdin[i])))
    /\ UNCHANGED <<rest, handle, local_request, sup, status_txs, tasks, drv, sink,
                   minted, conn, nemit, returned,
                   kind, opts, result, sig, nstdin, out, err, frames, last, nstdout, seen>>

\* the driver returns its uuid: its receiver and what it buffered are gone
Finish(i) ==
    /\ drv' = [drv EXCEPT ![i].st = "done"]
    /\ sink' = [sink EXCEPT ![i] = <<>>]

Continue(i) ==
    /\ sink' = [sink EXCEPT ![i] = Tail(@)]
    /\ UNCHANGED drv

\* an upload driver that takes any first response for success
UploadResponse_any(i, f) ==
    /\ result' = [result EXCEPT ![i] = SendResult(@, "true")]
    /\ Finish(i)
    /\ UNCHANGED <<out, err, frames>>

\* upload: Some(status) = upload_status_rx.recv() => matches!(status, Ok)
UploadResponse(i, f) ==
    /\ result' = [result EXCEPT ![i] =
                    SendResult(@, IF f.k = "Ok" THEN "true" ELSE "false")]
    /\ Finish(i)
    /\ UNCHANGED <<out, err, frames>>

\* a run driver that crosses the sinks: stdout payloads to stderr_tx and
\* stderr payloads to stdout_tx
RunResponse_swap(i, f) ==
    CASE f.k = "Terminated" ->
            /\ result' = [result EXCEPT ![i] =
                            SendResult(@, IF f.b THEN "true" ELSE "false")]
            /\ Finish(i)
            /\ UNCHANGED <<out, err, frames>>
      [] f.k = "StandardOutput" ->
            /\ err' = IF opts[i].stderr
                      THEN [err EXCEPT ![i] = Append(@, Payload(f))]
                      ELSE err
            /\ Continue(i)
            /\ UNCHANGED <<result, out, frames>>
      [] f.k = "StandardError" ->
            /\ out' = IF opts[i].stdout
                      THEN [out EXCEPT ![i] = Append(@, Payload(f))]
                      ELSE out
            /\ Continue(i)
            /\ UNCHANGED <<result, err, frames>>
      [] OTHER ->
            /\ Continue(i)
            /\ UNCHANGED <<result, out, err, frames>>

\* a run driver that also gives up, with false, on an Error response
RunResponse_err(i, f) ==
    CASE f.k \in {"Terminated", "Error"} ->
            /\ result' = [result EXCEPT ![i] =
                            SendResult(@, IF f.k = "Terminated" /\ f.b
                                          THEN "true" ELSE "false")]
            /\ Finish(i)
            /\ UNCHANGED <<out, err, frames>>
      [] f.k = "StandardOutput" ->
            /\ out' = IF opts[i].stdout
                      THEN [out EXCEPT ![i] = Append(@, Payload(f))]
                      ELSE out
            /\ Continue(i)
            /\ UNCHANGED <<result, err, frames>>
      [] f.k = "StandardError" ->
            /\ err' = IF opts[i].stderr
                      THEN [err EXCEPT ![i] = Append(@, Payload(f))]
                      ELSE err
            /\ Continue(i)
            /\ UNCHANGED <<result, out, frames>>
      [] OTHER ->
            /\ Continue(i)
            /\ UNCHANGED <<result, out, err, frames>>

\* run: Some(response) = run_status_rx.recv()
RunResponse(i, f) ==
    CASE f.k = "Terminated" ->
            /\ result' = [result EXCEPT ![i] =
                            SendResult(@, IF f.b THEN "true" ELSE "false")]
            /\ Finish(i)
            /\ UNCHANGED <<out, err, frames>>
      [] f.k = "StandardOutput" ->
            /\ out' = IF opts[i].stdout
                      THEN [out EXCEPT ![i] = Append(@, Payload(f))]
                      ELSE out
            /\ Continue(i)
            /\ UNCHANGED <<result, err, frames>>
      [] f.k = "StandardError" ->
            /\ err' = IF opts[i].stderr
                      THEN [err EXCEPT ![i] = Append(@, Payload(f))]
                      ELSE err
            /\ Continue(i)
            /\ UNCHANGED <<result, out, frames>>
      [] OTHER ->
            /\ Continue(i)
            /\ UNCHANGED <<result, out, err, frames>>

\* stream: Some(response) = stream_status_rx.recv()
StreamResponse(i, f) ==
    /\ frames' = IF f.k = "Frame"
                 THEN [frames EXCEPT ![i] = Append(@, Payload(f))]
                 ELSE frames
    /\ Continue(i)
    /\ UNCHANGED <<result, out, err>>

DrvResponse(i) ==
    /\ Polled(i)
    /\ sink[i] # <<>>
    /\ LET f == Head(sink[i]) IN
        /\ last' = [last EXCEPT ![i] = f.n]
        /\ CASE kind[i] = "Upload" -> UploadResponse(i, f)
             [] kind[i] = "Run" -> RunResponse(i, f)
             [] kind[i] = "Stream" -> StreamResponse(i, f)
    /\ UNCHANGED <<rest, handle, local_request, sup, status_txs, tasks, minted,
                   remote_requests, conn, nemit,
                   returned, kind, opts, sig, stdin, nstdin, nstdout, seen>>

\* ------------------------------------------- the operations built on run
\* self.run(task, None, None, Some(stdout_tx), None): no terminate signal,
\* no stdin, a stdout sink of their own, no stderr sink
CapturedOptions == [term |-> FALSE, stdin |-> FALSE, stdout |-> TRUE, stderr |-> FALSE]

\* the outcomes of an operation built on run: not returned yet, dropped by
\* its caller, Err(err), or Ok(decode(stdout))
StillPending == [tag |-> "Pending", err |-> "-", decode |-> "-", stdout |-> <<>>]
Dropped == [tag |-> "Dropped", err |-> "-", decode |-> "-", stdout |-> <<>>]
Failed(e) == [tag |-> "Err", err |-> e, decode |-> "-", stdout |-> <<>>]
Decoded(d, b) == [tag |-> "Ok", err |-> "-", decode |-> d, stdout |-> b]

\* stdout_stream.concat(): the chunks received on stdout_rx joined in the
\* order received, each chunk written as the frame it came in; the stream
\* ends when the driver has dropped stdout_tx
concat(q) == [x \in DOMAIN q |-> q[x].n]

\* a match that takes every exit status for success
Returned_ok(i, d) ==
    CASE result[i] \in {"RequestError", "ResponseError"} -> Failed(result[i])
      [] result[i] = "dropped" -> Dropped
      [] result[i] \in {"true", "false"} /\ drv[i].st # "running" ->
            Decoded(d, concat(out[i]))
      [] OTHER -> StillPending

\* tokio::try_join!(self.run(..), stdout_stream.concat().map(Result::Ok))?
\* followed by `match exit_status`: an error of run is returned as it is;
\* otherwise both futures have finished, and false gives ExecuteError and
\* true the stdout handed to the decoding d of the operation
Returned(i, d) ==
    CASE result[i] \in {"RequestError", "ResponseError"} -> Failed(result[i])
      [] result[i] = "dropped" -> Dropped
      [] result[i] \in {"true", "false"} /\ drv[i].st # "running" ->
            IF result[i] = "true"
            THEN Decoded(d, concat(out[i]))
            ELSE Failed("ExecuteError")
      [] OTHER -> StillPending

\* what each operation does with the stdout of a successful run
create_temp_dir(i) == Returned(i, "from_utf8, trim")
hostname(i) == Returned(i, "from_utf8, trim")
link_strength(i) == Returned(i, "from_utf8, REGEX_LINK_STRENGTH, parse")
fswebcam(i) == Returned(i, "none")

\* ------------------------------------------------------------------- Next
Caller ==
    \/ \E i \in Ops : upload(i)
    \/ \E i \in Ops, o \in RunOptions : run(i, o)
    \/ \E i \in Ops : stream(i)
    \/ \E i \in Ops : FireSignal(i)
    \/ \E i \in Ops : DropSignal(i)
    \/ \E i \in Ops : PushStdin(i)
    \/ \E i \in Ops : DropFuture(i)
    \/ DropDevice

Peer ==
    \/ PeerClose

Supervisor ==
    \/ \E p \in PeerFrames : SupResponse(p)
    \/ SupRequest
    \/ SupDropped
    \/ \E i \in Ops : SupTaskDone(i)

Drivers ==
    \/ \E i \in Ops : DrvSignal(i)
    \/ \E i \in Ops : DrvStdin(i)
    \/ \E i \in Ops : DrvResponse(i)

\* ------------------------------------------------------ the discovery loop
Addrs == 1..MaxAddrs

\* network::Device
Links == {"Xbee", "Fernbedienung"}
\* what a finished probe future holds: Ok(Device::_) or Err(Error::Timeout)
ProbeResults == {"Xbee", "Fernbedienung", "Timeout"}

NoDevice == [addr |-> 0, link |-> "none"]

\* main: every host of the subnet is sent to the pool before the tasks run
SeedPool == [k \in 1..MaxAddrs |-> k]

NetInit ==
    /\ addresses = SeedPool
    /\ probe_queue = {}
    /\ net = "select"
    /\ assoc = NoDevice
    /\ robots = {}
    /\ arena_requests = <<>>
    /\ host = [a \in Addrs |-> {}]
    /\ pushed = [a \in Addrs |-> 0]
    /\ timedout = [a \in Addrs |-> 0]

\* counter c with the count of address a raised by one, up to MaxCycles
Counted(c, a) == [c EXCEPT ![a] = IF @ < MaxCycles THEN @ + 1 ELSE @]

\* a retry that dials at once
probe_nodelay(addr, delay) == [addr |-> addr, stage |-> "xbee"]

\* probe(addr, delay): the future starts at the sleep when a delay is given
probe(addr, delay) == [addr |-> addr, stage |-> IF delay THEN "sleep" ELSE "xbee"]

\* Some(network_addr) = addresses.next()
NetAddress ==
    /\ net = "select"
    /\ addresses # <<>>
    /\ addresses' = Tail(addresses)
    /\ probe_queue' = probe_queue \cup {probe(Head(addresses), FALSE)}
    /\ pushed' = Counted(pushed, Head(addresses))
    /\ UNCHANGED <<env, muxvars, uivars, net, assoc, robots, arena_requests, host, timedout>>

\* the probe futures are polled by probe_queue.next(), in the select
\* tokio::time::sleep(delay) has elapsed
ProbeSleep(a) ==
    /\ net = "select"
    /\ [addr |-> a, stage |-> "sleep"] \in probe_queue
    /\ LET p == [addr |-> a, stage |-> "sleep"] IN probe_queue' = (probe_queue \ {p}) \cup {[p EXCEPT !.stage = "xbee"]}
    /\ UNCHANGED <<env, muxvars, uivars, addresses, net, assoc, robots, arena_requests, host,
                   pushed, timedout>>

\* a device comes up or goes away at an address
HostChange(a, h) ==
    /\ h # host[a]
    /\ host' = [host EXCEPT ![a] = h]
    /\ UNCHANGED <<env, muxvars, uivars, addresses, probe_queue, net, assoc, robots,
                   arena_requests, pushed, timedout>>

\* a probe that goes on to the agent link whatever the radio dial gave
ProbeXbee_skipped(a, ok) ==
    /\ net = "select"
    /\ ok = ("Xbee" \in host[a])
    /\ [addr |-> a, stage |-> "xbee"] \in probe_queue
    /\ LET p == [addr |-> a, stage |-> "xbee"] IN probe_queue' = (probe_queue \ {p}) \cup
         {[p EXCEPT !.stage = "fernbedienung"]}
    /\ UNCHANGED <<env, muxvars, uivars, addresses, net, assoc, robots, arena_requests, host,
                   pushed, timedout>>

\* timeout(500 ms, xbee::Device::new(addr)): ok, or failed / timed out
ProbeXbee(a, ok) ==
    /\ net = "select"
    /\ ok = ("Xbee" \in host[a])
    /\ [addr |-> a, stage |-> "xbee"] \in probe_queue
    /\ LET p == [addr |-> a, stage |-> "xbee"] IN probe_queue' = (probe_queue \ {p}) \cup
         {[p EXCEPT !.stage = IF ok THEN "Xbee" ELSE "fernbedienung"]}
    /\ UNCHANGED <<env, muxvars, uivars, addresses, net, assoc, robots, arena_requests, host,
                   pushed, timedout>>

\* timeout(500 ms, fernbedienung::Device::new(addr)): ok, or Error::Timeout
ProbeFernbedienung(a, ok) ==
    /\ net = "select"
    /\ ok = ("Fernbedienung" \in host[a])
    /\ [addr |-> a, stage |-> "fernbedienung"] \in probe_queue
    /\ LET p == [addr |-> a, stage |-> "fernbedienung"] IN probe_queue' = (probe_queue \ {p}) \cup
         {[p EXCEPT !.stage = IF ok THEN "Fernbedienung" ELSE "Timeout"]}
    /\ UNCHANGED <<env, muxvars, uivars, addresses, net, assoc, robots, arena_requests, host,
                   pushed, timedout>>

\* associate(Device::Xbee(device)): Drone::new and AddDrone, no await
AssociateXbee(addr) ==
    /\ robots' = robots \cup {[addr |-> addr, link |-> "Xbee"]}
    /\ arena_requests' = Append(arena_requests, [req |-> "AddDrone", addr |-> addr])
    /\ UNCHANGED <<net, assoc>>

\* associate(Device::Fernbedienung(device)): split the device and await
\* its task or its hostname
AssociateFernbedienung(addr) ==
    /\ net' = "associate"
    /\ assoc' = [addr |-> addr, link |-> "Fernbedienung"]
    /\ UNCHANGED <<robots, arena_requests>>

\* Some((probe_addr, probe_result)) = probe_queue.next()
NetProbe(p) ==
    /\ net = "select"
    /\ p \in probe_queue
    /\ p.stage = "Xbee" => Len(arena_requests) < MaxAdmits
    /\ CASE p.stage = "Xbee" ->
               /\ probe_queue' = probe_queue \ {p}
               /\ AssociateXbee(p.addr)
           [] p.stage = "Fernbedienung" ->
               /\ probe_queue' = probe_queue \ {p}
               /\ AssociateFernbedienung(p.addr)
           [] p.stage = "Timeout" ->
               /\ probe_queue' = (probe_queue \ {p}) \cup {probe(p.addr, TRUE)}
               /\ pushed' = Counted(pushed, p.addr)
               /\ timedout' = Counted(timedout, p.addr)
               /\ UNCHANGED <<net, assoc, robots, arena_requests>>
    /\ p.stage # "Timeout" => UNCHANGED <<pushed, timedout>>
    /\ UNCHANGED <<env, muxvars, uivars, addresses, host>>

\* what the select in associate resolves to: the device's task ended, or
\* the hostname query returned Ok(name) or Err
AssociateOutcomes == {"task", "ToshibaLaptop", "other", "Err"}

\* the select of associate resolves.  Only "ToshibaLaptop" unites the device
\* and hands a Pi-Puck to the arena; in the other arms the task and the
\* interface go out of scope when associate returns ("the IP address should
\* be returned to our pool here")
Associate(o) ==
    /\ net = "associate"
    /\ o \in AssociateOutcomes
    /\ o = "ToshibaLaptop" => Len(arena_requests) < MaxAdmits
    /\ net' = "select"
    /\ assoc' = NoDevice
    /\ IF o = "ToshibaLaptop"
       THEN /\ robots' = robots \cup {assoc}
            /\ arena_requests' =
                 Append(arena_requests, [req |-> "AddPiPuck", addr |-> assoc.addr])
       ELSE UNCHANGED <<robots, arena_requests>>
    /\ UNCHANGED <<env, muxvars, uivars, addresses, probe_queue, host, pushed, timedout>>

\* a robot task ends and its address is released back to the pool
RobotTaskEnds(r) ==
    /\ r \in robots
    /\ robots' = robots \ {r}
    /\ addresses' = Append(addresses, r.addr)
    /\ UNCHANGED <<env, muxvars, uivars, probe_queue, net, assoc, arena_requests, host,
                   pushed, timedout>>

NetNext ==
    \/ NetAddress
    \/ \E a \in Addrs : ProbeSleep(a)
    \/ \E a \in Addrs, ok \in BOOLEAN : ProbeXbee(a, ok)
    \/ \E a \in Addrs, ok \in BOOLEAN : ProbeFernbedienung(a, ok)
    \/ \E a \in Addrs, st \in ProbeResults : NetProbe([addr |-> a, stage |-> st])
    \/ \E o \in AssociateOutcomes : Associate(o)
    \/ \E a \in Addrs, l \in Links : RobotTaskEnds([addr |-> a, link |-> l])
    \/ \E a \in Addrs, h \in SUBSET Links : HostChange(a, h)

\* -------------------------------------------------------------- the web UI
\* uuid::Uuid::new_v4() of the robots in the fleets
RobotUuids == 1..MaxRobots
\* a uuid that no robot carries
Stranger == MaxRobots + 1
\* the v3 uuids of the two configuration cards
UUID_CONFIG_DRONE == MaxRobots + 2
UUID_CONFIG_PIPUCK == MaxRobots + 3
Targets == {UUID_CONFIG_DRONE, UUID_CONFIG_PIPUCK, Stranger}
Clients == 1..MaxClients
NoClient == 0
NoRobot == 0

\* pipuck::Action
PiPuckActions == {"RpiShutdown", "RpiReboot", "Identify"}

\* PiPuck::actions: the same vector whatever the robot does
actions(p) == PiPuckActions

\* the command PiPuck::execute writes for an action
Command(a) == IF a = "RpiShutdown" THEN "shutdown 0; exit" ELSE "reboot; exit"

\* the tabs of Request::Update; "other" is any other string
Tabs == {"connections", "diagnostics", "experiment", "optitrack", "other"}

\* webui::Request as serde_json::from_str returns it; "undecodable" is a
\* text for which it returns Err
UiRequest(t, a, u, f) == [type |-> t, action |-> a, uuid |-> u, file |-> f]

Requests ==
    {UiRequest("emergency", "-", NoRobot, FALSE), UiRequest("undecodable", "-", NoRobot, FALSE)}
    \cup {UiRequest("experiment", a, NoRobot, FALSE) : a \in {"start", "stop"}}
    \cup {UiRequest("drone", "-", u, FALSE) : u \in RobotUuids \cup {Stranger}}
    \cup {UiRequest("pipuck", a, u, FALSE) : a \in PiPuckActions, u \in RobotUuids \cup {Stranger}}
    \cup {UiRequest("update", t, NoRobot, FALSE) : t \in Tabs}
    \cup {UiRequest("firmware", "upload", u, f) : u \in Targets, f \in BOOLEAN}
    \cup {UiRequest("firmware", "clear", u, FALSE) : u \in Targets}

\* a handler waiting for the next message of its socket
Waiting == [at |-> "idle", uuid |-> NoRobot, what |-> "-"]

NoStep == [client |-> NoClient, msg |-> UiRequest("-", "-", NoRobot, FALSE)]

\* the state of the web UI when the first client connects
UiInit ==
    /\ pipucks \in SUBSET RobotUuids
    /\ drones = RobotUuids \ pipucks
    /\ pipucks_lock = NoClient
    /\ drones_lock = NoClient
    /\ ssh = [p \in RobotUuids |-> "up"]
    /\ sent = [p \in RobotUuids |-> <<>>]
    /\ experiment = "Idle"
    /\ ui = [c \in Clients |-> Waiting]
    /\ handled = NoStep
    /\ called = NoRobot
    /\ log = "none"
    /\ reply = "none"
    /\ main = "running"

\* no robot has been admitted yet
UiIdle == UiInit /\ pipucks = {}

\* what a step of the handler of client c leaves behind: the message, the
\* robot execute was called on, the line logged, the reply sent through tx
Step(c, m, robot, line, sentreply) ==
    /\ handled' = [client |-> c, msg |-> m]
    /\ called' = robot
    /\ log' = line
    /\ reply' = sentreply

\* Request::Emergency => { /* Go to emergency mode */ }
HandleEmergency(c) ==
    /\ ui[c].at = "idle"
    /\ Step(c, UiRequest("emergency", "-", NoRobot, FALSE), NoRobot, "none", "none")
    /\ UNCHANGED <<pipucks, drones, pipucks_lock, drones_lock, ssh, sent, experiment,
                   ui, main>>
    /\ UNCHANGED <<env, muxvars, netvars>>

\* Experiment::execute: start leaves Idle, stop leaves Preparing and Running
ExperimentExecute(e, a) ==
    CASE a = "start" /\ e = "Idle" -> "Preparing"
      [] a = "stop" /\ e \in {"Preparing", "Running"} -> "Stopping"
      [] OTHER -> e

\* Request::Experiment(action) => experiment.write().await.execute(&action)
HandleExperiment(c, a) ==
    /\ ui[c].at = "idle"
    /\ experiment' = ExperimentExecute(experiment, a)
    /\ Step(c, UiRequest("experiment", a, NoRobot, FALSE), NoRobot, "none", "none")
    /\ UNCHANGED <<pipucks, drones, pipucks_lock, drones_lock, ssh, sent, ui, main>>
    /\ UNCHANGED <<env, muxvars, netvars>>

\* the experiment moves on by itself: prepared robots run, stopped robots
\* are idle again
ExperimentAdvance ==
    /\ experiment \in {"Preparing", "Stopping"}
    /\ experiment' = IF experiment = "Preparing" THEN "Running" ELSE "Idle"
    /\ UNCHANGED <<pipucks, drones, pipucks_lock, drones_lock, ssh, sent, ui,
                   handled, called, log, reply, main>>
    /\ UNCHANGED <<env, muxvars, netvars>>

\* Request::Drone{action, uuid}: drones.write().await, find, execute
HandleDrone(c, u) ==
    /\ ui[c].at = "idle"
    /\ drones_lock = NoClient
    /\ IF u \in drones
       THEN Step(c, UiRequest("drone", "-", u, FALSE), u, "none", "none")
       ELSE Step(c, UiRequest("drone", "-", u, FALSE), NoRobot, "disconnected", "none")
    /\ UNCHANGED <<pipucks, drones, pipucks_lock, drones_lock, ssh, sent, experiment,
                   ui, main>>
    /\ UNCHANGED <<env, muxvars, netvars>>

\* PiPuck::execute up to its await of ssh.exec, called with the write lock
\* of pipucks held
execute(c, m, p) ==
    IF m.action \in actions(p)
    THEN IF m.action \in {"RpiShutdown", "RpiReboot"}
         THEN /\ Len(sent[p]) < MaxCmds
              /\ ui' = [ui EXCEPT ![c] = [at |-> "exec", uuid |-> p, what |-> m.action]]
              /\ pipucks_lock' = c
              /\ Step(c, m, p, "none", "none")
         ELSE /\ Step(c, m, p, "not implemented", "none")
              /\ UNCHANGED <<ui, pipucks_lock>>
    ELSE /\ Step(c, m, p, "ignored", "none")
         /\ UNCHANGED <<ui, pipucks_lock>>

\* Request::PiPuck{action, uuid}: pipucks.write().await, find, execute
HandlePiPuck(c, a, u) ==
    /\ ui[c].at = "idle"
    /\ pipucks_lock = NoClient
    /\ IF u \in pipucks
       THEN execute(c, UiRequest("pipuck", a, u, FALSE), u)
       ELSE /\ Step(c, UiRequest("pipuck", a, u, FALSE), NoRobot, "disconnected", "none")
            /\ UNCHANGED <<ui, pipucks_lock>>
    /\ UNCHANGED <<pipucks, drones, drones_lock, ssh, sent, experiment, main>>
    /\ UNCHANGED <<env, muxvars, netvars>>

\* ssh::Device::exec(command, false) returns to execute, execute to the
\* handler, and the write lock is dropped: shell.data wrote the command, or
\* failed with IoFailure and execute logged it
ExecDone(c) ==
    /\ ui[c].at = "exec"
    /\ LET p == ui[c].uuid IN
         /\ IF ssh[p] = "up"
            THEN /\ sent' = [sent EXCEPT ![p] = Append(@, Command(ui[c].what))]
                 /\ log' = "none"
            ELSE /\ log' = "failed"
                 /\ UNCHANGED sent
         /\ handled' = [client |-> c, msg |-> UiRequest("await", ui[c].what, p, FALSE)]
         /\ called' = p
    /\ reply' = "none"
    /\ ui' = [ui EXCEPT ![c] = Waiting]
    /\ pipucks_lock' = NoClient
    /\ UNCHANGED <<pipucks, drones, drones_lock, ssh, experiment, main>>
    /\ UNCHANGED <<env, muxvars, netvars>>

\* the connection of a Pi-Puck is lost
SshDown(p) ==
    /\ p \in pipucks
    /\ ssh[p] = "up"
    /\ ssh' = [ssh EXCEPT ![p] = "down"]
    /\ UNCHANGED <<pipucks, drones, pipucks_lock, drones_lock, sent, experiment, ui,
                   handled, called, log, reply, main>>
    /\ UNCHANGED <<env, muxvars, netvars>>

\* Request::Update{tab}: connections_tab reads both fleets, diagnostics_tab
\* takes the write lock of pipucks and awaits every robot, any other string
\* is Error::BadRequest, which is logged
HandleUpdate(c, t) ==
    /\ ui[c].at = "idle"
    /\ CASE t = "connections" ->
              /\ drones_lock = NoClient
              /\ pipucks_lock = NoClient
              /\ Step(c, UiRequest("update", t, NoRobot, FALSE), NoRobot, "none", "Connections")
              /\ UNCHANGED <<ui, pipucks_lock>>
         [] t = "diagnostics" ->
              /\ pipucks_lock = NoClient
              /\ pipucks_lock' = c
              /\ ui' = [ui EXCEPT ![c] = [at |-> "tasks", uuid |-> NoRobot,
                                            what |-> "Diagnostics"]]
              /\ Step(c, UiRequest("update", t, NoRobot, FALSE), NoRobot, "none", "none")
         [] t = "experiment" ->
              /\ Step(c, UiRequest("update", t, NoRobot, FALSE), NoRobot, "none", "Experiment")
              /\ UNCHANGED <<ui, pipucks_lock>>
         [] t = "optitrack" ->
              /\ \E title \in {"Optitrack", "Optitrack [OFFLINE]"} :
                    Step(c, UiRequest("update", t, NoRobot, FALSE), NoRobot, "none", title)
              /\ UNCHANGED <<ui, pipucks_lock>>
         [] OTHER ->
              /\ Step(c, UiRequest("update", t, NoRobot, FALSE), NoRobot, "bad request", "none")
              /\ UNCHANGED <<ui, pipucks_lock>>
    /\ UNCHANGED <<pipucks, drones, drones_lock, ssh, sent, experiment, main>>
    /\ UNCHANGED <<env, muxvars, netvars>>

\* Request::Firmware{action, uuid, file}: with a decoded file (Upload) or
\* always (Clear) the handler takes the write lock of the fleet the uuid
\* names and awaits one future per robot; what these futures do on the
\* robots is outside this model
HandleFirmware(c, a, u, f) ==
    /\ ui[c].at = "idle"
    /\ a = "clear" => ~f
    /\ IF a = "upload" /\ ~f
       THEN /\ Step(c, UiRequest("firmware", a, u, f), NoRobot, "none", "none")
            /\ UNCHANGED <<ui, pipucks_lock, drones_lock>>
       ELSE CASE u = UUID_CONFIG_DRONE ->
                   /\ drones_lock = NoClient
                   /\ drones_lock' = c
                   /\ ui' = [ui EXCEPT ![c] = [at |-> "tasks", uuid |-> NoRobot,
                                                 what |-> "firmware"]]
                   /\ Step(c, UiRequest("firmware", a, u, f), NoRobot, "none", "none")
                   /\ UNCHANGED pipucks_lock
              [] u = UUID_CONFIG_PIPUCK ->
                   /\ pipucks_lock = NoClient
                   /\ pipucks_lock' = c
                   /\ ui' = [ui EXCEPT ![c] = [at |-> "tasks", uuid |-> NoRobot,
                                                 what |-> "firmware"]]
                   /\ Step(c, UiRequest("firmware", a, u, f), NoRobot, "none", "none")
                   /\ UNCHANGED drones_lock
              [] OTHER ->
                   /\ Step(c, UiRequest("firmware", a, u, f), NoRobot, "unsupported", "none")
                   /\ UNCHANGED <<ui, pipucks_lock, drones_lock>>
    /\ UNCHANGED <<pipucks, drones, ssh, sent, experiment, main>>
    /\ UNCHANGED <<env, muxvars, netvars>>

\* tasks.next() returned None: the collected futures are done, the write
\* lock is dropped, and diagnostics_tab's Reply is sent
TasksDone(c) ==
    /\ ui[c].at = "tasks"
    /\ pipucks_lock' = IF pipucks_lock = c THEN NoClient ELSE pipucks_lock
    /\ drones_lock' = IF drones_lock = c THEN NoClient ELSE drones_lock
    /\ handled' = [client |-> c, msg |-> UiRequest("await", ui[c].what, NoRobot, FALSE)]
    /\ called' = NoRobot
    /\ log' = "none"
    /\ reply' = IF ui[c].what = "Diagnostics" THEN "Diagnostics" ELSE "none"
    /\ ui' = [ui EXCEPT ![c] = Waiting]
    /\ UNCHANGED <<pipucks, drones, ssh, sent, experiment, main>>
    /\ UNCHANGED <<env, muxvars, netvars>>

\* serde_json::from_str returned Err
HandleUndecodable(c) ==
    /\ ui[c].at = "idle"
    /\ Step(c, UiRequest("undecodable", "-", NoRobot, FALSE), NoRobot, "cannot deserialize", "none")
    /\ UNCHANGED <<pipucks, drones, pipucks_lock, drones_lock, ssh, sent, experiment,
                   ui, main>>
    /\ UNCHANGED <<env, muxvars, netvars>>

\* user_ws_rx.next() returned None or Err: the loop ends
Disconnect(c) ==
    /\ ui[c].at = "idle"
    /\ ui' = [ui EXCEPT ![c] = [Waiting EXCEPT !.at = "closed"]]
    /\ UNCHANGED <<pipucks, drones, pipucks_lock, drones_lock, ssh, sent, experiment,
                   handled, called, log, reply, main>>
    /\ UNCHANGED <<env, muxvars, netvars>>

UiNext ==
    \/ \E c \in Clients : HandleEmergency(c)
    \/ \E c \in Clients, a \in {"start", "stop"} : HandleExperiment(c, a)
    \/ ExperimentAdvance
    \/ \E c \in Clients, u \in RobotUuids \cup {Stranger} : HandleDrone(c, u)
    \/ \E c \in Clients, a \in PiPuckActions, u \in RobotUuids \cup {Stranger} :
          HandlePiPuck(c, a, u)
    \/ \E c \in Clients : ExecDone(c)
    \/ \E p \in RobotUuids : SshDown(p)
    \/ \E c \in Clients, t \in Tabs : HandleUpdate(c, t)
    \/ \E c \in Clients, a \in {"upload", "clear"}, u \in Targets, f \in BOOLEAN :
          HandleFirmware(c, a, u, f)
    \/ \E c \in Clients : TasksDone(c)
    \/ \E c \in Clients : HandleUndecodable(c)
    \/ \E c \in Clients : Disconnect(c)

Init == MuxInit /\ NetInit /\ UiIdle

Next == Caller \/ Peer \/ Supervisor \/ Drivers

Spec == Init /\ [][Next]_vars

\* the discovery loop alone: the agent link of the first part stays idle
InitNet == MuxInit /\ env = "plain" /\ NetInit /\ UiIdle

NetSpec == InitNet /\ [][NetNext]_vars

\* tokio::signal::ctrl_c() becomes ready: the interrupt has arrived
Interrupt ==
    /\ main = "running"
    /\ main' = "interrupted"
    /\ UNCHANGED <<pipucks, drones, pipucks_lock, drones_lock, ssh, sent, experiment,
                   ui, handled, called, log, reply>>
    /\ UNCHANGED <<env, muxvars, netvars>>

\* the select of main takes `_ = &mut sigint_task`, logs "Shutting down"
\* and main returns: the pinned tasks are dropped with everything they own
MainExit ==
    /\ main = "interrupted"
    /\ main' = "exited"
    /\ net' = "dropped"
    /\ probe_queue' = {}
    /\ assoc' = NoDevice
    /\ robots' = {}
    /\ addresses' = <<>>
    /\ UNCHANGED <<arena_requests, host, pushed, timedout>>
    /\ UNCHANGED <<pipucks, drones, pipucks_lock, drones_lock, ssh, sent, experiment,
                   ui, handled, called, log, reply>>
    /\ UNCHANGED <<env, muxvars>>

\* main: the select polls its branches in a random order, so the other
\* tasks still move in the poll that finds ctrl_c ready; once main has
\* returned the loop is gone (net = "dropped") and only the hosts change
MainNext ==
    \/ NetNext
    \/ Interrupt
    \/ MainExit

MainSpec == InitNet /\ [][MainNext]_vars

\* the web UI alone, over a fleet that is already admitted
InitUi == MuxInit /\ env = "plain" /\ NetInit /\ UiInit

UiSpec == InitUi /\ [][UiNext]_vars

\* the discovery loop on a subnet where nothing ever answers a dial
SilentNext ==
    \/ NetAddress
    \/ \E a \in Addrs : ProbeSleep(a)
    \/ \E a \in Addrs : ProbeXbee(a, FALSE)
    \/ \E a \in Addrs : ProbeFernbedienung(a, FALSE)
    \/ \E a \in Addrs : NetProbe([addr |-> a, stage |-> "Timeout"])

SilentSpec == InitNet /\ [][SilentNext]_vars

\* the discovery task is scheduled and FuturesUnordered polls every probe
\* that can move; when a device appears, when the hostname query of
\* associate returns and when a robot task ends is up to the peers
FairNetSpec ==
    /\ NetSpec
    /\ WF_vars(NetAddress)
    /\ \A a \in Addrs :
          /\ WF_vars(ProbeSleep(a))
          /\ WF_vars(\E ok \in BOOLEAN : ProbeXbee(a, ok))
          /\ WF_vars(\E ok \in BOOLEAN : ProbeFernbedienung(a, ok))
          /\ WF_vars(\E st \in ProbeResults : NetProbe([addr |-> a, stage |-> st]))

\* the supervisor and driver steps that tokio runs whenever they are ready:
\* a queued request is taken, the closed request channel is noticed
FairSpec == Spec /\ WF_vars(SupRequest) /\ WF_vars(SupDropped)

\* a device whose peer answers every request with Error and never sends
\* Terminated
ErrorFrames == {f \in PeerFrames : f.k = "Error"}

InitError == Init /\ env = "rich"

ErrorNext ==
    \/ Caller
    \/ Peer
    \/ \E p \in ErrorFrames : SupResponse(p)
    \/ SupRequest
    \/ SupDropped
    \/ \E i \in Ops : SupTaskDone(i)
    \/ Drivers

ErrorSpec == InitError /\ [][ErrorNext]_vars

\* ================================================================= claims
\* nothing is left for the supervisor task or its drivers to do
Quiescent == ~ENABLED (Supervisor \/ Drivers)

\* nothing is left for the supervisor task or its drivers to do unless the
\* peer writes another frame
Idle ==
    ~ENABLED (SupRequest \/ SupDropped \/ (\E i \in Ops : SupTaskDone(i)) \/ Drivers)

\* the places of the requests of kind k with correlator u on the outbound queue
Places(u, k) ==
    {x \in DOMAIN remote_requests :
        remote_requests[x].c = u /\ remote_requests[x].k = k}

\* ---- C1 (network/mod.rs new, associate)
Queued(a) == Cardinality({x \in DOMAIN addresses : addresses[x] = a})
InProbe(a) == Cardinality({p \in probe_queue : p.addr = a})
Held(a) == Cardinality({r \in robots : r.addr = a})
             + (IF assoc.addr = a THEN 1 ELSE 0)

\* C1: every address of the subnet is in exactly one place: queued in the
\* pool, inside a probe in flight, or held by one live robot or device
C1_AddressConservation ==
    \A a \in Addrs : Queued(a) + InProbe(a) + Held(a) = 1

\* ---- C2
\* C2: the address is sent back at most once and only after the handle was
\* dropped, and once the handle is dropped it is sent back
C2_ReleasedExactlyOnce ==
    /\ [](returned <= 1 /\ (returned = 1 => handle = "dropped"))
    /\ (handle = "dropped") ~> (returned = 1)

\* a device with a driver in flight was dropped and gave its address back
C2_Witness ==
    /\ returned = 1
    /\ \E i \in Ops : drv[i].st = "cancelled"

\* ---- C3
\* C3: every driver in flight has its own sink registered under its own
\* correlator: no registration replaced the sink of another operation
C3_OneSinkPerCorrelator ==
    /\ \A i \in tasks :
          /\ drv[i].uuid \in DOMAIN status_txs
          /\ status_txs[drv[i].uuid] = i
    /\ \A i, j \in tasks : i # j => drv[i].uuid # drv[j].uuid

\* a sink was registered while another operation was in flight
C3_Witness == Cardinality(tasks) = 2 /\ Cardinality(DOMAIN status_txs) = 2

\* ---- C4
\* C4: the correlators in the table are those of the drivers in flight
\* (pushed and not yet returned by tasks.next()): a driver that runs has
\* an entry, a driver that was taken off or cancelled has none
C4_EntryIffInFlight ==
    /\ DOMAIN status_txs = {drv[i].uuid : i \in tasks}
    /\ \A i \in Ops :
          /\ drv[i].st = "running" => i \in tasks
          /\ i \in tasks => drv[i].st \in {"running", "done"}
          /\ drv[i].st = "none" => drv[i].uuid = NoUuid

\* one operation completed and lost its entry while another is in flight
C4_Witness ==
    \E i, j \in Ops :
        /\ drv[i].st = "done" /\ i \notin tasks
        /\ drv[i].uuid \notin DOMAIN status_txs
        /\ j \in tasks /\ drv[j].uuid \in DOMAIN status_txs

\* ---- C5
\* C5: when the correlator of a run leaves the table, the run's exit status
\* was sent before: the caller is not still waiting for it
C5_CompletionBeforeRemoval ==
    [][\A u \in DOMAIN status_txs :
          (u \notin DOMAIN status_txs' /\ kind[status_txs[u]] = "Run")
             => result[status_txs[u]] # "pending"]_vars

\* a run delivered its exit status and its correlator was removed after
C5_Witness ==
    \E i \in Ops :
        /\ kind[i] = "Run" /\ result[i] \in {"true", "false"}
        /\ sup = "running"
        /\ drv[i].uuid \notin DOMAIN status_txs

\* ---- C6
Elems(q) == {q[x] : x \in DOMAIN q}

\* C6: the stdout sink of a run holds only StandardOutput payloads of frames
\* that carried the run's correlator, each once, what waits in the run's
\* status channel carries its correlator too, and while the run is in flight
\* every StandardOutput frame written under its correlator is in its sink
\* or waits in its channel: none is lost, none goes elsewhere
C6_OwnStdoutOnly ==
    \A i \in Ops :
        kind[i] = "Run" =>
          /\ \A x \in Elems(out[i]) :
                x.c = drv[i].uuid /\ x.k = "StandardOutput"
          /\ \A x \in Elems(sink[i]) : x.c = drv[i].uuid
          /\ Cardinality(Elems(out[i])) = Len(out[i])
          /\ drv[i].st = "running" =>
                Len(out[i]) + Cardinality({x \in Elems(sink[i]) :
                                             x.k = "StandardOutput" /\ opts[i].stdout})
                   = nstdout[i]

\* two runs in flight on the handle both received stdout
C6_Witness ==
    \E i, j \in Ops :
        /\ i # j /\ kind[i] = "Run" /\ kind[j] = "Run"
        /\ out[i] # <<>> /\ out[j] # <<>>
        /\ {i, j} \subseteq tasks

\* ---- C7
Ascending(q) == \A x, y \in DOMAIN q : x < y => q[x].n < q[y].n

\* C7: a driver takes the responses of its correlator in the order the peer
\* wrote them: what waits in its channel is in that order and comes after
\* everything it took, and so is what it passed on to each sink
C7_EmissionOrder ==
    \A i \in Ops :
        /\ Ascending(sink[i])
        /\ \A x \in Elems(sink[i]) : x.n > last[i]
        /\ Ascending(out[i]) /\ Ascending(err[i]) /\ Ascending(frames[i])
        /\ \A x \in Elems(out[i]) \cup Elems(err[i]) \cup Elems(frames[i]) :
              x.n <= last[i]

\* a run got its first and third frame around a frame of another operation
C7_Witness ==
    \E i, j \in Ops :
        /\ i # j
        /\ Len(out[i]) = 2 /\ out[i][1].n = 1 /\ out[i][2].n = 3
        /\ \E x \in Elems(out[j]) \cup Elems(frames[j]) : x.n = 2

\* ---- C8
\* C8: once the connection is lost and the supervisor has nothing left to
\* do, its loop has ended, the address is back and no operation is pending
C8_ConnectionLossReleases ==
    (conn = "closed" /\ Quiescent) =>
        /\ sup = "stopped"
        /\ returned = 1
        /\ \A i \in Ops : result[i] # "pending"

\* ---- C9
\* C9: once the connection is lost under a run and the supervisor has
\* nothing left to do, the run has resolved with ResponseError and its
\* correlator is out of the table
C9_RunFailsOnLoss ==
    \A i \in Ops :
        (conn = "closed" /\ Quiescent /\ handle = "alive"
            /\ kind[i] = "Run" /\ drv[i].st # "none")
        => /\ result[i] # "pending"
           /\ drv[i].uuid \notin DOMAIN status_txs

\* ---- C10
\* C10: a run in flight whose terminate signal fired can send, and a run
\* that took its fired signal has put exactly one Terminate with the Run's
\* correlator on the outbound queue, after the Run request
C10_TerminateAfterRun ==
    \A i \in Ops :
        (kind[i] = "Run" /\ sig[i] = "fired") =>
          /\ (Polled(i) /\ ~drv[i].taken) => ENABLED DrvSignal(i)
          /\ drv[i].taken =>
               /\ Cardinality(Places(drv[i].uuid, "Terminate")) = 1
               /\ Cardinality(Places(drv[i].uuid, "Run")) = 1
               /\ \A x \in Places(drv[i].uuid, "Run"),
                     y \in Places(drv[i].uuid, "Terminate") : x < y
               /\ \A x \in DOMAIN remote_requests :
                     remote_requests[x].c = drv[i].uuid =>
                        remote_requests[x].k \in {"Run", "Terminate", "StandardInput"}

\* the terminate signal of a run in flight fired and Terminate was queued
C10_Witness ==
    \E i \in Ops :
        /\ kind[i] = "Run" /\ sig[i] = "fired" /\ drv[i].taken
        /\ Places(drv[i].uuid, "Terminate") # {}

\* ---- C11
\* C11: once a run or stream has taken its fired signal and the supervisor
\* and the drivers have nothing left to do, the terminating request is on
\* the outbound queue, the driver has exited and its correlator is out of
\* the table, whether or not the peer answered
C11_SignalledDriverExits ==
    \A i \in Ops :
        (kind[i] \in {"Run", "Stream"} /\ sig[i] = "fired" /\ drv[i].taken
            /\ sup = "running" /\ Idle)
        => /\ Places(drv[i].uuid, StopRequest(kind[i])) # {}
           /\ drv[i].st = "done"
           /\ drv[i].uuid \notin DOMAIN status_txs

\* ---- C12
\* C12: once the caller has dropped the future of a run or stream and the
\* supervisor and the drivers have nothing left to do, the terminating
\* request was sent and the correlator is out of the table
C12_DroppedFutureCancels ==
    \A i \in Ops :
        (kind[i] \in {"Run", "Stream"} /\ result[i] = "dropped"
            /\ sup = "running" /\ Idle)
        => /\ Places(drv[i].uuid, StopRequest(kind[i])) # {}
           /\ drv[i].uuid \notin DOMAIN status_txs

\* ---- C13
\* C13: once a stream has taken its fired stop signal and nothing is left to
\* do while no more frames arrive, one Stop with the stream's correlator is
\* on the outbound queue, the stream call has returned and the correlator
\* is out of the table
C13_StoppedStreamReturns ==
    \A i \in Ops :
        (kind[i] = "Stream" /\ sig[i] = "fired" /\ drv[i].taken
            /\ sup = "running" /\ Idle)
        => /\ Cardinality(Places(drv[i].uuid, "Stop")) = 1
           /\ result[i] # "pending"
           /\ drv[i].uuid \notin DOMAIN status_txs

\* ---- C14
\* the requests on the outbound queue that carry correlator u
Carrying(u) == {x \in DOMAIN remote_requests : remote_requests[x].c = u}

\* C14: an upload puts one request, the Upload, on the outbound queue; its
\* driver takes no response while it runs and exactly one when it returns,
\* the first of its channel; the caller gets true if that response is Ok
\* and false if it is anything else, and gets nothing before
C14_UploadFirstResponse ==
    /\ [](\A i \in Ops : kind[i] = "Upload" =>
            /\ drv[i].st = "running" => last[i] = 0
            /\ drv[i].st # "none" =>
                  /\ Cardinality(Carrying(drv[i].uuid)) = 1
                  /\ \A x \in Carrying(drv[i].uuid) : remote_requests[x].k = "Upload"
            /\ result[i] \in {"true", "false"} => drv[i].st = "done")
    /\ [][\A i \in Ops :
            (kind[i] = "Upload" /\ drv[i].st = "running" /\ drv'[i].st = "done") =>
               /\ sink[i] # <<>>
               /\ last'[i] = Head(sink[i]).n
               /\ result'[i] = IF result[i] # "pending" THEN result[i]
                                ELSE IF Head(sink[i]).k = "Ok" THEN "true"
                                ELSE "false"]_vars
    /\ [][\A i \in Ops :
            (kind[i] = "Upload" /\ drv[i].st = "done") => last'[i] = last[i]]_vars

\* an upload whose first response was not Ok resolved to false, and a later
\* frame was read after it
C14_Witness ==
    \E i \in Ops :
        /\ kind[i] = "Upload" /\ drv[i].st = "done" /\ result[i] = "false"
        /\ last[i] >= 1 /\ nemit > last[i]

\* ---- C15
\* the StandardOutput frames that wait in the status channel of i
WaitingStdout(i) == {x \in Elems(sink[i]) : x.k = "StandardOutput"}

\* C15: a run driver returns in the step in which it takes a Terminated
\* response of its correlator and in no other; the caller then gets that
\* response's exit flag and has no value before; and at that step every
\* StandardOutput frame written under the correlator before the Terminated
\* is in the stdout sink: those still waiting were written after it
C15_RunCompletesOnTerminated ==
    /\ [](\A i \in Ops :
            (kind[i] = "Run" /\ result[i] \in {"true", "false"}) => drv[i].st = "done")
    /\ [][\A i \in Ops :
            (kind[i] = "Run" /\ drv[i].st = "running" /\ drv'[i].st = "done") =>
               /\ sink[i] # <<>>
               /\ Head(sink[i]).k = "Terminated"
               /\ Head(sink[i]).c = drv[i].uuid
               /\ result'[i] = IF result[i] # "pending" THEN result[i]
                                ELSE IF Head(sink[i]).b THEN "true"
                                ELSE "false"
               /\ \A x \in WaitingStdout(i) : x.n > Head(sink[i]).n
               /\ opts[i].stdout =>
                     Len(out'[i]) = nstdout[i] - Cardinality(WaitingStdout(i))]_vars
    /\ [][\A i \in Ops :
            (kind[i] = "Run" /\ drv[i].st = "running" /\ last'[i] # last[i]
                /\ Head(sink[i]).k = "Terminated") => drv'[i].st = "done"]_vars

\* a run whose peer wrote stdout and then Terminated(true) returned true
\* with the stdout in its sink
C15_Witness ==
    \E i \in Ops :
        /\ kind[i] = "Run" /\ drv[i].st = "done" /\ result[i] = "true"
        /\ Len(out[i]) >= 1 /\ nstdout[i] = Len(out[i])

\* ---- C16
\* C16: the step that reads a frame whose correlator is absent or not in
\* the table changes neither the table, nor a status channel, nor a driver,
\* nor anything an operation has or gets, and leaves the loop running: it
\* still takes the next request and reads the next frame
C16_UnknownFrameDiscarded ==
    /\ [][(nemit' # nemit /\ seen' \in {"unknown", "absent"}) =>
            UNCHANGED <<status_txs, tasks, drv, sink, result, out, err, frames,
                        last, remote_requests, local_request, returned, sup,
                        conn>>]_vars
    /\ []((seen \in {"unknown", "absent"} /\ sup = "running") =>
            /\ local_request # <<>> => ENABLED SupRequest
            /\ (conn = "up" /\ nemit < MaxFrames) =>
                  ENABLED (\E p \in EnvFrames : SupResponse(p)))

\* the last frame read carried a correlator that is not in the table, while
\* a driver that had taken an earlier frame is running and got nothing
C16_Witness ==
    \E i \in Ops :
        /\ seen = "unknown"
        /\ drv[i].st = "running" /\ last[i] >= 1
        /\ nemit > last[i] /\ sink[i] = <<>>

\* ---- C17
\* C17: once a response frame failed to deserialize and the supervisor and
\* the drivers have nothing left to do, the loop has ended, no operation is
\* served any more and the address was given back
C17_DecodeFailureFatal ==
    (seen = "undecodable" /\ Idle) =>
        /\ sup = "stopped"
        /\ returned = 1
        /\ tasks = {}

\* ---- C18
\* C18: once the connection has failed, a call of upload, run or stream
\* gets RequestError at once, and puts nothing on the request queue, in
\* the table or on the outbound queue
C18_RequestErrorAfterLoss ==
    [][\A i \in Ops :
          (conn = "closed" /\ kind[i] = "none" /\ kind'[i] # "none") =>
             /\ result'[i] = "RequestError"
             /\ UNCHANGED <<local_request, status_txs, remote_requests>>]_vars

\* ---- C19
\* C19: once the driver of an operation has returned, firing or dropping
\* its signal changes nothing but the signal: no request is queued, the
\* table, the drivers and what the operations got stay as they are; the
\* signal is never taken afterwards, and no request with the operation's
\* correlator is ever queued again
C19_LateSignalIsNoOp ==
    /\ [][\A i \in Ops :
            (drv[i].st = "done" /\ sig'[i] # sig[i]) =>
               UNCHANGED <<remote_requests, status_txs, tasks, drv, sink, result,
                           out, err, frames, local_request>>]_vars
    /\ [][\A i \in Ops :
            drv[i].st = "done" =>
               {x \in DOMAIN remote_requests' : remote_requests'[x].c = drv[i].uuid}
                  = Carrying(drv[i].uuid)]_vars
    /\ [](\A i \in Ops :
            (drv[i].st = "done" /\ Resolved(sig[i])) => ~ENABLED DrvSignal(i))

\* the terminate signal of a run that had completed and left the table was
\* fired, and no Terminate was queued
C19_Witness ==
    \E i \in Ops :
        /\ kind[i] = "Run" /\ drv[i].st = "done" /\ i \notin tasks
        /\ result[i] \in {"true", "false"}
        /\ sig[i] = "fired" /\ ~drv[i].taken
        /\ Places(drv[i].uuid, "Terminate") = {}

\* ---- C20 (network/mod.rs probe)
\* the probe of address a at stage st
At(a, st) == [addr |-> a, stage |-> st]

\* C20: a probe leaves its radio dial as a radio link when a radio answers
\* at the address, whether or not an agent answers too, and goes on to the
\* agent dial only when none does; the agent dial starts nowhere else, and
\* a probe ends as an agent link only from the agent dial
C20_RadioDialFirst ==
    [][\A a \in Addrs :
          /\ (At(a, "xbee") \in probe_queue /\ At(a, "xbee") \notin probe_queue') =>
                IF "Xbee" \in host[a]
                THEN At(a, "Xbee") \in probe_queue'
                     /\ At(a, "fernbedienung") \notin probe_queue'
                ELSE At(a, "fernbedienung") \in probe_queue'
          /\ (At(a, "fernbedienung") \in probe_queue'
                  /\ At(a, "fernbedienung") \notin probe_queue) =>
                At(a, "xbee") \in probe_queue /\ "Xbee" \notin host[a]
          /\ (At(a, "Fernbedienung") \in probe_queue'
                  /\ At(a, "Fernbedienung") \notin probe_queue) =>
                At(a, "fernbedienung") \in probe_queue]_vars

\* a probe ended as a radio link at an address where both links answer
C20_Witness ==
    \E a \in Addrs :
        /\ host[a] = Links
        /\ At(a, "Xbee") \in probe_queue

\* ---- C21 (network/mod.rs new, probe)
\* C21: while nothing answers, every probe that ended in a timeout is
\* replaced by one probe of the same address that starts at the retry sleep,
\* and a dial starts only from that sleep or from the pool; the probes pushed
\* for an address are its timeouts plus the one in flight, nothing reaches
\* the arena, and the probes and counts of the other addresses stay as they
\* were
C21_SilentRetry ==
    /\ [](/\ arena_requests = <<>>
          /\ robots = {}
          /\ assoc = NoDevice
          /\ \A a \in Addrs :
                pushed[a] < MaxCycles => pushed[a] = timedout[a] + InProbe(a))
    /\ [][\A a \in Addrs :
            /\ (At(a, "Timeout") \in probe_queue /\ At(a, "Timeout") \notin probe_queue') =>
                  /\ {p \in probe_queue' : p.addr = a} = {At(a, "sleep")}
                  /\ {p \in probe_queue' : p.addr # a} = {p \in probe_queue : p.addr # a}
                  /\ \A b \in Addrs \ {a} :
                        pushed'[b] = pushed[b] /\ timedout'[b] = timedout[b]
                  /\ addresses' = addresses
            /\ (At(a, "xbee") \in probe_queue' /\ At(a, "xbee") \notin probe_queue) =>
                  \/ At(a, "sleep") \in probe_queue
                  \/ (addresses # <<>> /\ Head(addresses) = a /\ timedout[a] = 0)
         ]_vars

\* an address has failed twice and its third probe is in flight
C21_Witness ==
    \E a \in Addrs :
        /\ timedout[a] = 2
        /\ pushed[a] = 3
        /\ At(a, "xbee") \in probe_queue
        /\ arena_requests = <<>>

\* ---- C22 (network/mod.rs new)
\* C22: every address is, again and again, either held by a robot or at the
\* start of a dial, as long as the arena still takes robots
C22_EveryAddressProbedAgain ==
    \A a \in Addrs :
        []<>(\/ Held(a) = 1 /\ assoc.addr # a
             \/ At(a, "xbee") \in probe_queue
             \/ Len(arena_requests) = MaxAdmits)

\* ---- C23 (network/mod.rs new, associate)
\* the step appends a request for address a to the arena's queue
Handed(a) ==
    /\ Len(arena_requests') = Len(arena_requests) + 1
    /\ arena_requests'[Len(arena_requests')].addr = a

\* the step pushes a new probe of address a or sends a to the pool
Requeued(a) ==
    \/ \E p \in probe_queue' \ probe_queue : p.addr = a
    \/ Len(SelectSeq(addresses', LAMBDA x : x = a))
          > Len(SelectSeq(addresses, LAMBDA x : x = a))

\* the step is the end of a probe of address a: its timeout or its radio
\* link is taken from the queue, or the association of its agent link ends
Completed(a) ==
    \/ At(a, "Timeout") \in probe_queue \ probe_queue'
    \/ At(a, "Xbee") \in probe_queue \ probe_queue'
    \/ assoc.addr = a /\ assoc'.addr # a

\* C23: the end of a probe of an address either hands a device of that
\* address to the arena or re-queues the address, never both and never
\* neither
C23_HandedOrRequeued ==
    [][\A a \in Addrs : Completed(a) => (Handed(a) # Requeued(a))]_vars

\* ---- C24 (network/mod.rs new, associate)
\* the requests in the arena's queue that admit a robot at address a
AddRobots(a) ==
    Len(SelectSeq(arena_requests, LAMBDA q : q.addr = a))

\* an address held by a live robot is neither in the pool nor in a probe,
\* and was announced to the arena
AliveNotProbed ==
    \A r \in robots :
        /\ Queued(r.addr) = 0
        /\ InProbe(r.addr) = 0
        /\ AddRobots(r.addr) >= 1

\* C24: when the association of an agent link ends, one request to add the
\* robot of that address has gone to the arena and the robot holds the
\* address; an address held by a live robot is neither queued nor probed
C24_OneAddRobotPerAgent ==
    /\ []AliveNotProbed
    /\ [][\A a \in Addrs :
            (assoc.addr = a /\ assoc'.addr # a) =>
                /\ Handed(a)
                /\ [addr |-> a, link |-> "Fernbedienung"] \in robots'
         ]_vars

\* ---- C25 (webui.rs run: Request::Drone, Request::PiPuck)
\* the step is the handler of client c taking the command m
Commanded(c, m) ==
    /\ handled' = [client |-> c, msg |-> m]
    /\ handled' # handled \/ ui'[c].at = "exec"

\* the fleet a command of this type is looked up in
Fleet(t) == IF t = "pipuck" THEN pipucks ELSE drones

\* the commands that name a robot
Commands == {r \in Requests : r.type \in {"pipuck", "drone"}}

\* a step of client c's handler routes by uuid: a command for a uuid of the
\* fleet calls execute on the robot with that uuid, a command for any other
\* uuid calls no robot and starts nothing; the fleets stay as they are, and
\* the command that ssh.exec writes goes to the shell of the robot called
Routed(c) ==
    /\ \A m \in Commands :
          Commanded(c, m) =>
              /\ pipucks' = pipucks
              /\ drones' = drones
              /\ sent' = sent
              /\ ui'[c].at = "exec" => ui'[c].uuid = m.uuid
              /\ IF m.uuid \in Fleet(m.type)
                 THEN called' = m.uuid
                 ELSE called' = NoRobot /\ ui' = ui
    /\ (ui[c].at = "exec" /\ ui'[c].at # "exec") =>
          \A p \in RobotUuids \ {ui[c].uuid} : sent'[p] = sent[p]

\* the routing alone, with what the handler does for a uuid outside the
\* fleet: a warning in the log and no reply
RoutedAndLogged ==
    [][\A c \in Clients :
          /\ Routed(c)
          /\ \A m \in Commands :
                (Commanded(c, m) /\ m.uuid \notin Fleet(m.type)) =>
                    log' = "disconnected" /\ reply' = "none"
     ]_vars

\* C25: a command is executed by the robot with its uuid and by no other; a
\* command for a uuid that is not in the fleet is executed by no robot,
\* leaves the fleet unchanged and is answered with NotFound
C25_RoutedById ==
    [][\A c \in Clients :
          /\ Routed(c)
          /\ \A m \in Commands :
                (Commanded(c, m) /\ m.uuid \notin Fleet(m.type)) =>
                    reply' = "NotFound"
     ]_vars

\* ---- C27 (webui.rs run: Request::Emergency)
\* C27: when a handler has taken an Emergency message the experiment is
\* Idle, whatever it was before
C27_EmergencyStops ==
    [][\A c \in Clients :
          (/\ handled' = [client |-> c, msg |-> UiRequest("emergency", "-", NoRobot, FALSE)]
           /\ handled' # handled) =>
              experiment' = "Idle"
     ]_vars

\* ---- C28 (webui.rs run; main.rs main)
\* C28: no handler of a web UI client is the writer of a fleet, and no
\* handler's step writes to a robot
C28_OnlyArenaMutates ==
    /\ [](pipucks_lock \notin Clients /\ drones_lock \notin Clients)
    /\ [][(\E c \in Clients : handled'.client = c /\ handled' # handled) =>
             sent' = sent]_vars

\* ---- C30 (pipuck.rs PiPuck::execute; ssh.rs Device::exec)
\* C30: when ssh.exec fails with IoFailure inside execute, the robot is no
\* longer in the fleet once the handler is back at its socket
C30_TransportErrorRemoves ==
    [][\A c \in Clients :
          (ui[c].at = "exec" /\ ui'[c].at # "exec" /\ log' = "failed") =>
              ui[c].uuid \notin pipucks'
     ]_vars

\* ---- C29 (main.rs main)
\* C29: from the interrupt on no robot is handed to the arena or admitted,
\* and when the process has exited no probe, association or robot task is
\* left
C29_GracefulShutdown ==
    /\ [][main # "running" =>
             (arena_requests' = arena_requests /\ robots' \subseteq robots)]_vars
    /\ [](main = "exited" =>
             (probe_queue = {} /\ assoc = NoDevice /\ robots = {}))

\* ---- C31 (fernbedienung/mod.rs handle_run_request)
\* the driver of i takes the next response of its status channel
Takes(i) == drv[i].st = "running" /\ last'[i] # last[i]

\* C31: a run driver that takes a StandardOutput response appends its
\* payload to the stdout sink if the run has one and drops it if not, and
\* the same for StandardError and the stderr sink; either way the other
\* sink and the completion value stay as they were and the driver goes on;
\* a sink changes in no other step, so the stdout sink holds stdout
\* payloads only and the stderr sink stderr payloads only
C31_OutputToItsSink ==
    /\ [][\A i \in Ops :
            (kind[i] = "Run" /\ Takes(i)) =>
               LET f == Head(sink[i]) IN
                 /\ f.k = "StandardOutput" =>
                       /\ out'[i] = IF opts[i].stdout
                                    THEN Append(out[i], Payload(f)) ELSE out[i]
                       /\ err'[i] = err[i]
                 /\ f.k = "StandardError" =>
                       /\ err'[i] = IF opts[i].stderr
                                    THEN Append(err[i], Payload(f)) ELSE err[i]
                       /\ out'[i] = out[i]
                 /\ f.k \in {"StandardOutput", "StandardError"} =>
                       /\ drv'[i].st = "running"
                       /\ result'[i] = result[i]
                       /\ i \in tasks'
                 /\ f.k \notin {"StandardOutput", "StandardError"} =>
                       out'[i] = out[i] /\ err'[i] = err[i]]_vars
    /\ [][\A i \in Ops :
            ~(kind[i] = "Run" /\ Takes(i)) =>
               out'[i] = out[i] /\ err'[i] = err[i]]_vars
    /\ [](\A i \in Ops :
            /\ \A x \in Elems(out[i]) : x.k = "StandardOutput"
            /\ \A x \in Elems(err[i]) : x.k = "StandardError"
            /\ ~opts[i].stdout => out[i] = <<>>
            /\ ~opts[i].stderr => err[i] = <<>>)

\* a run with both sinks got a payload in each and is still in flight
C31_Witness ==
    \E i \in Ops :
        /\ kind[i] = "Run" /\ drv[i].st = "running"
        /\ out[i] # <<>> /\ err[i] # <<>>

\* a run without a stderr sink took a StandardError response after its
\* stdout and goes on
C31_Dropped ==
    \E i \in Ops :
        /\ kind[i] = "Run" /\ drv[i].st = "running" /\ ~opts[i].stderr
        /\ Len(out[i]) = 1 /\ last[i] > out[i][1].n /\ err[i] = <<>>

\* ---- C32 (fernbedienung/mod.rs handle_run_request, handle_stream_request)
\* the responses that are not valid for an operation of kind k
Invalid(k) ==
    CASE k = "Run" -> {"Ok", "Error", "Frame"}
      [] k = "Stream" -> {"Ok", "Error", "Terminated", "StandardOutput",
                          "StandardError"}
      [] OTHER -> {}

\* C32: a run or stream driver that takes a response not valid for its
\* operation goes on: it stays in flight, its correlator stays registered
\* to it, the caller gets no completion value and no sink gets anything
C32_InvalidResponseIgnored ==
    [][\A i \in Ops :
          (Takes(i) /\ Head(sink[i]).k \in Invalid(kind[i])) =>
             /\ drv'[i].st = "running"
             /\ i \in tasks'
             /\ drv'[i].uuid = drv[i].uuid
             /\ drv[i].uuid \in DOMAIN status_txs'
             /\ status_txs'[drv[i].uuid] = i
             /\ result'[i] = result[i]
             /\ out'[i] = out[i] /\ err'[i] = err[i] /\ frames'[i] = frames[i]
             /\ remote_requests' = remote_requests]_vars

\* a run took a response that is neither output nor Terminated and a stream
\* one that is no frame, and both are in flight with their callers waiting
C32_Witness ==
    \E i, j \in Ops :
        /\ env = "plain"
        /\ kind[i] = "Run" /\ drv[i].st = "running" /\ last[i] >= 1
        /\ out[i] = <<>> /\ result[i] = "pending"
        /\ kind[j] = "Stream" /\ drv[j].st = "running" /\ last[j] >= 1
        /\ frames[j] = <<>> /\ result[j] = "pending"
        /\ {drv[i].uuid, drv[j].uuid} \subseteq DOMAIN status_txs

\* ---- C33 (fernbedienung/mod.rs Device::new, handle_run_request)
\* the chunks of the StandardInput requests on the outbound queue that
\* carry correlator u, in queue order
StdinSent(u) ==
    LET IsStdin(r) == r.c = u /\ r.k = "StandardInput"
        q == SelectSeq(remote_requests, IsStdin)
    IN  [x \in DOMAIN q |-> q[x].d]

\* C33: the Run request of a run is on the outbound queue once, before
\* every other request with its correlator; the StandardInput requests
\* with its correlator carry the chunks the caller supplied, in the order
\* of supply, followed by the chunks still in the stdin channel; every
\* StandardInput request on the queue carries the correlator of a run; the
\* queue only grows at its end
C33_RunThenStdinInOrder ==
    /\ [](\A i \in Ops :
            (kind[i] = "Run" /\ drv[i].st # "none") =>
               /\ Cardinality(Places(drv[i].uuid, "Run")) = 1
               /\ \A x \in Places(drv[i].uuid, "Run"), y \in Carrying(drv[i].uuid) :
                     x <= y
               /\ StdinSent(drv[i].uuid) \o stdin[i] = [x \in 1..nstdin[i] |-> x])
    /\ [](\A x \in DOMAIN remote_requests :
            remote_requests[x].k = "StandardInput" =>
               \E i \in Ops : kind[i] = "Run" /\ opts[i].stdin
                              /\ drv[i].uuid = remote_requests[x].c)
    /\ [][\/ remote_requests' = remote_requests
          \/ \E r \in {remote_requests'[Len(remote_requests')]} :
                remote_requests' = Append(remote_requests, r)]_vars

\* a run has its Run request, then both chunks of its stdin in the order of
\* supply, on the outbound queue
C33_Witness ==
    \E i \in Ops :
        /\ kind[i] = "Run" /\ nstdin[i] = 2
        /\ StdinSent(drv[i].uuid) = <<1, 2>>
        /\ Places(drv[i].uuid, "Run") = {1}

\* ---- C34 (fernbedienung/mod.rs create_temp_dir, hostname, link_strength,
\* fswebcam)
\* the runs that the operations built on run issue
Captured == {i \in Ops : kind[i] = "Run" /\ opts[i] = CapturedOptions}

\* what the four operations return when they are the caller of run i
Built(i) == {create_temp_dir(i), hostname(i), link_strength(i), fswebcam(i)}

\* C34: an operation built on run has one request on the outbound queue,
\* its Run, and the queue holds one Run per run taken up; in the step in
\* which its driver takes Terminated the operation returns ExecuteError if
\* the exit flag is false and, if it is true, Ok of the stdout payloads
\* written under its correlator before the Terminated, in the order
\* written; ExecuteError is returned in no other step, no value is returned
\* before, and what was returned stays
C34_BuiltOnRun ==
    /\ [](\A i \in Captured :
            /\ drv[i].st # "none" =>
                  /\ Cardinality(Carrying(drv[i].uuid)) = 1
                  /\ Carrying(drv[i].uuid) = Places(drv[i].uuid, "Run")
            /\ drv[i].st \in {"none", "running"} =>
                  \A r \in Built(i) : r.tag \notin {"Ok"} /\ r.err # "ExecuteError")
    /\ [](Cardinality({x \in DOMAIN remote_requests : remote_requests[x].k = "Run"})
             = Cardinality({i \in Ops : kind[i] = "Run" /\ drv[i].st # "none"}))
    /\ [][\A i \in Captured :
            (Takes(i) /\ Head(sink[i]).k = "Terminated") =>
               \A r \in Built(i)' :
                  IF result[i] # "pending" THEN r = Dropped
                  ELSE IF Head(sink[i]).b
                  THEN /\ r.tag = "Ok"
                       /\ r.stdout = concat(out[i])
                       /\ Ascending(out[i])
                       /\ Len(r.stdout) = nstdout[i] - Cardinality(WaitingStdout(i))
                  ELSE r = Failed("ExecuteError")]_vars
    /\ [][\A i \in Captured :
            (Failed("ExecuteError") \in Built(i)'
                /\ Failed("ExecuteError") \notin Built(i)) =>
               /\ Takes(i)
               /\ Head(sink[i]).k = "Terminated" /\ ~Head(sink[i]).b]_vars
    /\ [][\A i \in Captured :
            (\A r \in Built(i) : r.tag \in {"Ok", "Err"}) =>
               Built(i)' = Built(i)]_vars

\* a run that received stdout terminated with a false exit flag, and the
\* operation built on it returned ExecuteError
C34_Witness ==
    \E i \in Captured :
        /\ hostname(i) = Failed("ExecuteError")
        /\ Len(out[i]) >= 1
        /\ Cardinality(Carrying(drv[i].uuid)) = 1

\* an operation built on run returned the two stdout chunks of its run
C34_Success ==
    \E i \in Captured :
        /\ fswebcam(i).tag = "Ok"
        /\ Len(fswebcam(i).stdout) = 2

\* ---- C35 (fernbedienung/mod.rs handle_run_request, handle_stream_request)
\* C35: a terminating request with the correlator of a run or stream is on
\* the outbound queue only if the operation's signal was fired, a driver
\* takes its signal only when it was fired, and dropping the signal's
\* sender changes nothing of the driver and of what its caller gets
C35_OnlyFiredSignalSends ==
    /\ [](\A i \in Ops :
            (kind[i] \in {"Run", "Stream"} /\ sig[i] # "fired") =>
               Places(drv[i].uuid, StopRequest(kind[i])) = {})
    /\ [][\A i \in Ops :
            (drv'[i].taken /\ ~drv[i].taken) => sig[i] = "fired"]_vars
    /\ [][\A i \in Ops :
            (sig'[i] = "dropped" /\ sig[i] # "dropped") =>
               UNCHANGED <<drv, result, remote_requests, status_txs, tasks>>]_vars

\* the sender of a run's terminate signal was dropped unfired, and a
\* Terminate with the run's correlator is on the outbound queue
C35_DroppedSenderTerminates ==
    \E i \in Ops :
        /\ kind[i] = "Run" /\ sig[i] = "dropped" /\ drv[i].taken
        /\ Places(drv[i].uuid, "Terminate") # {}
        /\ drv[i].st = "running"

\* ---- C36 (fernbedienung/mod.rs handle_run_request, Device::new)
\* C36: once a run has taken an Error response of a peer that never sends
\* Terminated, and the supervisor and the drivers have nothing left to do,
\* the caller has its outcome and the run's correlator is out of the table
C36_ErrorEndsRun ==
    \A i \in Ops :
        (kind[i] = "Run" /\ last[i] >= 1 /\ handle = "alive" /\ Idle)
        => /\ result[i] # "pending"
           /\ drv[i].uuid \notin DOMAIN status_txs

\* with such a peer no run ever delivers an exit status, and the correlator
\* of a run stays in the table for as long as the handle lives
C36_ErrorLeavesRunPending ==
    \A i \in Ops :
        (kind[i] = "Run" /\ drv[i].st # "none") =>
           /\ result[i] \notin {"true", "false"}
           /\ sup = "running" => drv[i].uuid \in DOMAIN status_txs

\* ---- C37 (network/mod.rs new, associate)
\* the probes that have resolved and wait for probe_queue.next()
Resolving == {p \in probe_queue : p.stage \in {"Xbee", "Fernbedienung", "Timeout"}}

\* C37: while the hostname query of an association is pending, the loop
\* takes the next address of the pool if there is one and handles the
\* result of every other probe that has resolved
C37_AssociationDoesNotBlock ==
    (net = "associate") =>
        /\ addresses # <<>> => ENABLED NetAddress
        /\ \A p \in Resolving :
              (p.stage = "Xbee" => Len(arena_requests) < MaxAdmits) =>
                 ENABLED NetProbe(p)

\* while an association is pending no address is taken from the pool and
\* no probe moves, starts or is handled
C37_AssociationBlocks ==
    [][net = "associate" =>
          /\ probe_queue' = probe_queue
          /\ Len(addresses') >= Len(addresses)]_vars

\* ---- C38 (fernbedienung/mod.rs handle_stream_request, stream)
\* C38: a stream whose fired stop signal was taken resolves to a boolean:
\* its driver returns only after a value was sent on the result channel,
\* and once nothing is left to do while no more frames arrive the caller,
\* unless it dropped the call, holds true or false
C38_StoppedStreamYieldsBool ==
    /\ [][\A i \in Ops :
            (kind[i] = "Stream" /\ drv[i].st = "running" /\ drv'[i].st = "done") =>
               result'[i] \in {"true", "false", "dropped"}]_vars
    /\ [](\A i \in Ops :
            (kind[i] = "Stream" /\ sig[i] = "fired" /\ drv[i].taken
                /\ sup = "running" /\ Idle)
            => result[i] \in {"true", "false", "dropped"})

\* no stream ever resolves to a boolean, and no stream driver returns
C38_StreamNeverYieldsBool ==
    \A i \in Ops :
        kind[i] = "Stream" =>
           /\ result[i] \notin {"true", "false"}
           /\ drv[i].st # "done"

\* ---- C39 (fernbedienung/mod.rs Device::new)
\* the step reads a frame whose correlator belongs to a driver that has
\* returned: the correlator is in the table, where every driver has
\* returned and waits to be taken off, or it is not in the table although
\* every correlator there is has been minted
LateFrame ==
    /\ nemit' # nemit
    /\ \/ seen' = "routed" /\ \A i \in tasks : drv[i].st = "done"
       \/ seen' = "unknown" /\ minted = Uuids

\* C39: the step that reads a frame for the correlator of a driver that has
\* returned, before or after its entry left the table, puts the frame in no
\* status channel and no sink, changes no completion value, no driver and
\* no table entry, queues no request and leaves the loop running
C39_LateFrameDropped ==
    [][LateFrame =>
          /\ UNCHANGED <<status_txs, tasks, drv, sink, result, out, err, frames,
                         last, remote_requests, local_request, returned, conn>>
          /\ sup' = "running"]_vars

\* a frame was read for the correlator of an operation that had completed
\* and left the table, while the other operation is in flight and got nothing
C39_Witness ==
    \E i, j \in Ops :
        /\ seen = "unknown" /\ minted = Uuids /\ sup = "running"
        /\ drv[i].st = "done" /\ i \notin tasks /\ result[i] \in {"true", "false"}
        /\ drv[j].st = "running" /\ sink[j] = <<>> /\ last[j] = 0
        /\ result[j] = "pending"

\* no step reads a frame for a correlator that is still in the table after
\* its driver returned (false: the first case of LateFrame does happen)
C39_BeforeRemoval ==
    [][~(nemit' # nemit /\ seen' = "routed" /\ tasks # {}
            /\ \A i \in tasks : drv[i].st = "done")]_vars

====
